---- MODULE Spec2Model ----
(***************************************************************************)
(* goatpaver, src/main.rs: main and process_input.                         *)
(*                                                                         *)
(* main reads a buffer from stdin, deserializes it into an InputJson,      *)
(* calls process_input and prints the output.                              *)
(* For every heading of input.xpaths and every xpath string of its list,   *)
(* one task per url is spawned on a nursery; each task classifies its      *)
(* (heading, xpath, url) triple; the main task drains the nursery's output *)
(* stream into successful_urls / unsuccessful_urls and then inserts the    *)
(* pair of lists into output_results under the xpath string, unless the    *)
(* string already has an entry.                                            *)
(***************************************************************************)
EXTENDS Naturals, Sequences, FiniteSets, TLC

VARIABLES
    buffer,             \* what main read from stdin, as serde_json sees it
    xpaths,             \* input.xpaths : heading -> list of xpath strings
    urls,               \* input.urls   : url -> [targets, content]
    pc,                 \* position of the main task in process_input
    todo,               \* headings the outer for loop has not visited yet
    heading,            \* the outer loop's current heading
    idx,                \* index of the inner loop's current xpath_str
    unit,               \* url -> state of the task nursed for it in this group
    outcome,            \* url -> task_result of a task that has returned
    successful_urls,    \* the group's local Vec
    unsuccessful_urls,  \* the group's local Vec
    output_results,     \* xpath string -> XpathResult
    parses,             \* url -> number of skyscraper::html::parse calls
    compiles,           \* xpath string -> number of xpath::parse calls
    applies,            \* <<heading, url>> pairs on which xpath.apply was called
    spawns              \* number of tasks nursed so far

vars == <<buffer, xpaths, urls, pc, todo, heading, idx, unit, outcome,
          successful_urls, unsuccessful_urls, output_results,
          parses, compiles, applies, spawns>>

input == <<xpaths, urls>>

(***************************************************************************)
(* The input universe.                                                     *)
(***************************************************************************)
\* the longest list of xpath strings under one heading
MaxList == 2

\* the largest input: xpath occurrences + tasks the run spawns + registered
\* targets
MaxSize == 6

Headings == {"H1", "H2"}

UrlNames == {"A", "B"}

XpathStrs == {"//p", "[[[", "string(//p)", "count(//p)", "//p[f()]"}

Targets == {"X", ""}

NoHeading == "-"

\* Option<String>: <<>> is None, <<s>> is Some(s)
None == <<>>

Some(s) == <<s>>

P(text) == [tag |-> "p", text |-> text]

\* markup: whether skyscraper accepts it, and its elements in document order
Markup(wf, nodes) == [wellFormed |-> wf, nodes |-> nodes]

Contents ==
    { Markup(FALSE, <<>>),
      Markup(TRUE, <<>>),
      Markup(TRUE, <<P(Some("X")), P(None)>>),
      Markup(TRUE, <<P(Some("x")), P(Some("X"))>>) }

TargetMaps == UNION { [hs -> Targets] : hs \in SUBSET Headings }

UrlDatas == [targets : TargetMaps, content : Contents]

UrlMaps == UNION { [us -> UrlDatas] : us \in SUBSET UrlNames }

RECURSIVE SeqsUpTo(_, _)
SeqsUpTo(S, n) ==
    IF n = 0 THEN { <<>> }
    ELSE LET shorter == SeqsUpTo(S, n - 1)
         IN  shorter \cup { Append(s, e) : s \in shorter, e \in S }

XpathMaps == UNION { [hs -> SeqsUpTo(XpathStrs, MaxList)] : hs \in SUBSET Headings }

RECURSIVE Sum(_, _)
Sum(f, S) ==
    IF S = {} THEN 0
    ELSE LET k == CHOOSE e \in S : TRUE
         IN  f[k] + Sum(f, S \ {k})

Occurrences(xm) == Sum([h \in DOMAIN xm |-> Len(xm[h])], DOMAIN xm)

TargetCount(um) == Sum([u \in DOMAIN um |-> Cardinality(DOMAIN um[u].targets)], DOMAIN um)

\* the xpath occurrences + the tasks the run spawns (one per xpath
\* occurrence and url) + the registered targets
InputSize(xm, um) ==
    Occurrences(xm) * (Cardinality(DOMAIN um) + 1) + TargetCount(um)

\* the maps with their sizes, computed once
SizedXpathMaps == { <<Occurrences(xm), xm>> : xm \in XpathMaps }

SizedUrlMaps == { <<Cardinality(DOMAIN um), TargetCount(um), um>> : um \in UrlMaps }

(***************************************************************************)
(* skyscraper, as process_input uses it.                                   *)
(***************************************************************************)
\* xpath::parse: a compiled query, or a parse error
XpathParse(s) ==
    CASE s = "//p"         -> [ok |-> TRUE,  kind |-> "path",   tag |-> "p"]
      [] s = "string(//p)" -> [ok |-> TRUE,  kind |-> "string", tag |-> "p"]
      [] s = "count(//p)"  -> [ok |-> TRUE,  kind |-> "count",  tag |-> "p"]
      [] s = "//p[f()]"    -> [ok |-> TRUE,  kind |-> "pred",   tag |-> "p"]
      [] OTHER             -> [ok |-> FALSE, kind |-> "",       tag |-> ""]

\* skyscraper::html::parse: a document, or a parse error
HtmlParse(content) ==
    IF content.wellFormed
    THEN [ok |-> TRUE,  nodes |-> content.nodes]
    ELSE [ok |-> FALSE, nodes |-> <<>>]

\* XpathItemTree::from(&document)
XpathItemTree(document) == document.nodes

NodeItem(n) == [isNode |-> TRUE, kind |-> "node", text |-> n.text, value |-> ""]

StringItem(s) == [isNode |-> FALSE, kind |-> "string", text |-> None, value |-> s]

\* a numeric item, its value in decimal
NumberItem(n) ==
    [isNode |-> FALSE, kind |-> "number", text |-> None,
     value |-> CASE n = 0 -> "0" [] n = 1 -> "1" [] n = 2 -> "2" [] OTHER -> "many"]

UnwrapOrDefault(opt) == IF opt = None THEN "" ELSE opt[1]

Selected(q, tree) == SelectSeq(tree, LAMBDA n : n.tag = q.tag)

\* xpath.apply(&tree): an item set in document order, or an evaluation error
XpathApply(q, tree) ==
    LET sel == Selected(q, tree)
    IN  CASE q.kind = "path" ->
                [ok |-> TRUE, items |-> [i \in 1..Len(sel) |-> NodeItem(sel[i])]]
          [] q.kind = "string" ->
                [ok |-> TRUE,
                 items |-> << StringItem(IF sel = <<>> THEN ""
                                         ELSE UnwrapOrDefault(sel[1].text)) >>]
          [] q.kind = "count" ->
                [ok |-> TRUE, items |-> << NumberItem(Len(sel)) >>]
          [] OTHER ->
                \* the predicate calls a function the evaluator does not know:
                \* it fails as soon as there is a node to test
                IF sel = <<>> THEN [ok |-> TRUE,  items |-> <<>>]
                              ELSE [ok |-> FALSE, items |-> <<>>]

(***************************************************************************)
(* The task nursed for one url: Result<bool, String>, or a panic.          *)
(***************************************************************************)
Ok(b) == [kind |-> "Ok", val |-> b, msg |-> ""]

Err(m) == [kind |-> "Err", val |-> FALSE, msg |-> m]

Panic == [kind |-> "Panic", val |-> FALSE, msg |-> ""]

NoOutcome == [kind |-> "None", val |-> FALSE, msg |-> ""]

\* lines 92-107: the text of the first item, "" for an empty item set;
\* extract_as_node panics on an item that is not a node
ActualValue(item_set) ==
    IF item_set = <<>> THEN Some("")
    ELSE IF ~item_set[1].isNode THEN None
    ELSE Some(UnwrapOrDefault(item_set[1].text))

\* TaskResult with a missing target read as the empty string
TaskResultDefaultTarget(h, x, u) ==
    LET xpath == XpathParse(x)
        expected_target == IF h \in DOMAIN urls[u].targets
                           THEN urls[u].targets[h] ELSE ""
    IN  IF ~xpath.ok THEN Err("XPath parsing failed")
        ELSE LET document == HtmlParse(urls[u].content)
             IN  IF ~document.ok THEN Err("HTML parsing failed")
                 ELSE LET item_set == XpathApply(xpath, XpathItemTree(document))
                      IN  IF ~item_set.ok THEN Err("XPath evaluation failed")
                          ELSE LET actual_value == ActualValue(item_set.items)
                               IN  IF actual_value = None THEN Panic
                                   ELSE Ok(actual_value[1] = expected_target)

\* TaskResult with an empty item set reported as a non-match
TaskResultEmptyIsNoMatch(h, x, u) ==
    LET xpath == XpathParse(x)
    IN  IF ~xpath.ok THEN Err("XPath parsing failed")
        ELSE IF u \notin DOMAIN urls THEN Err("Internal error: URL data not found")
        ELSE IF h \notin DOMAIN urls[u].targets THEN Ok(FALSE)
        ELSE LET document == HtmlParse(urls[u].content)
             IN  IF ~document.ok THEN Err("HTML parsing failed")
                 ELSE LET item_set == XpathApply(xpath, XpathItemTree(document))
                      IN  IF ~item_set.ok THEN Err("XPath evaluation failed")
                          ELSE IF item_set.items = <<>> THEN Ok(FALSE)
                          ELSE LET actual_value == ActualValue(item_set.items)
                               IN  IF actual_value = None THEN Panic
                                   ELSE Ok(actual_value[1] = urls[u].targets[h])

\* TaskResult with html::parse(..).unwrap() in place of map_err(..)?
TaskResultParseUnwrap(h, x, u) ==
    LET xpath == XpathParse(x)
    IN  IF ~xpath.ok THEN Err("XPath parsing failed")
        ELSE IF u \notin DOMAIN urls THEN Err("Internal error: URL data not found")
        ELSE IF h \notin DOMAIN urls[u].targets THEN Ok(FALSE)
        ELSE LET document == HtmlParse(urls[u].content)
             IN  IF ~document.ok THEN Panic
                 ELSE LET item_set == XpathApply(xpath, XpathItemTree(document))
                      IN  IF ~item_set.ok THEN Err("XPath evaluation failed")
                          ELSE LET actual_value == ActualValue(item_set.items)
                               IN  IF actual_value = None THEN Panic
                                   ELSE Ok(actual_value[1] = urls[u].targets[h])

\* lines 59-121
TaskResult(h, x, u) ==
    LET xpath == XpathParse(x)
    IN  IF ~xpath.ok THEN Err("XPath parsing failed")
        ELSE IF u \notin DOMAIN urls THEN Err("Internal error: URL data not found")
        ELSE IF h \notin DOMAIN urls[u].targets THEN Ok(FALSE)
        ELSE LET document == HtmlParse(urls[u].content)
             IN  IF ~document.ok THEN Err("HTML parsing failed")
                 ELSE LET item_set == XpathApply(xpath, XpathItemTree(document))
                      IN  IF ~item_set.ok THEN Err("XPath evaluation failed")
                          ELSE LET actual_value == ActualValue(item_set.items)
                               IN  IF actual_value = None THEN Panic
                                   ELSE Ok(actual_value[1] = urls[u].targets[h])

\* CallsHtmlParse with the document parsed before the target is looked up
CallsHtmlParseEager(h, x, u) ==
    /\ XpathParse(x).ok
    /\ u \in DOMAIN urls

\* whether the task gets as far as xpath::parse (always), html::parse, apply
CallsHtmlParse(h, x, u) ==
    /\ XpathParse(x).ok
    /\ u \in DOMAIN urls
    /\ h \in DOMAIN urls[u].targets

CallsApply(h, x, u) ==
    /\ CallsHtmlParse(h, x, u)
    /\ HtmlParse(urls[u].content).ok

(***************************************************************************)
(* process_input: the main task.                                           *)
(***************************************************************************)
xpath_str == xpaths[heading][idx]

XpathResult(s, f) == [successful |-> s, unsuccessful |-> f]

\* output_results.insert(k, v): the last value wins
Insert(map, k, v) ==
    [e \in DOMAIN map \cup {k} |-> IF e = k THEN v ELSE map[e]]

\* OrInsert that keeps no entry for a group without results
OrInsertNonEmpty(map, k, v) ==
    IF k \in DOMAIN map \/ (v.successful = <<>> /\ v.unsuccessful = <<>>) THEN map
    ELSE [e \in DOMAIN map \cup {k} |-> IF e = k THEN v ELSE map[e]]

\* output_results.entry(k).or_insert_with(|| v)
OrInsert(map, k, v) ==
    IF k \in DOMAIN map THEN map
    ELSE [e \in DOMAIN map \cup {k} |-> IF e = k THEN v ELSE map[e]]

\* IsSuccess with the Err arm pushing onto the wrong list
IsSuccessOrErr(r) == r = Ok(TRUE) \/ r.kind = "Err"

\* lines 132-141: Ok(true) goes to successful_urls; Ok(false) and Err(e) go
\* to unsuccessful_urls
IsSuccess(r) == r = Ok(TRUE)

\* StreamEnded as a poll that gives up when no output is ready yet
StreamIdle == \A u \in DOMAIN unit : unit[u] # "returned"

\* StreamEnded with a timeout that gives up on the tasks still running
StreamEndedOrTimedOut ==
    \A u \in DOMAIN unit : unit[u] \in {"collected", "panicked", "running"}

\* output_stream.next() yields None: the nursery is dropped and no task is
\* left that can still yield an output
StreamEnded == \A u \in DOMAIN unit : unit[u] \in {"collected", "panicked"}

\* the texts main may read: a JSON object with both fields, a JSON object
\* without the urls field, text that is not JSON
Buffers == {"json", "no-urls", "not-json"}

\* line 164: serde_json::from_str::<InputJson>(&buffer) is Ok; the derive
\* at lines 15-19 has no default for a field
DeserializeOk(b) == b = "json"

NoGroup == [u \in DOMAIN urls |-> "none"]

NoOutcomes == [u \in DOMAIN urls |-> NoOutcome]

\* xpaths and urls are the fields of the InputJson that the buffer holds;
\* a buffer that holds none has no field to read
Init ==
    /\ buffer \in Buffers
    /\ IF buffer = "json"
       THEN \E xm \in SizedXpathMaps, um \in SizedUrlMaps :
               /\ xm[1] * (um[1] + 1) + um[2] <= MaxSize
               /\ xpaths = xm[2]
               /\ urls = um[3]
       ELSE xpaths = <<>> /\ urls = <<>>
    /\ pc = "main"
    /\ todo = DOMAIN xpaths
    /\ heading = NoHeading
    /\ idx = 0
    /\ unit = NoGroup
    /\ outcome = NoOutcomes
    /\ successful_urls = <<>>
    /\ unsuccessful_urls = <<>>
    /\ output_results = <<>>
    /\ parses = [u \in DOMAIN urls |-> 0]
    /\ compiles = [x \in XpathStrs |-> 0]
    /\ applies = {}
    /\ spawns = 0

\* Deserialize with unwrap_or_default() in place of the ? operator
DeserializeOrDefault ==
    /\ pc = "main"
    /\ pc' = "outer"
    /\ UNCHANGED <<buffer, input, todo, heading, idx, unit, outcome, successful_urls,
                   unsuccessful_urls, output_results, parses, compiles,
                   applies, spawns>>

\* lines 160-167: the buffer deserializes and process_input(input) is called
Deserialize ==
    /\ pc = "main"
    /\ DeserializeOk(buffer)
    /\ pc' = "outer"
    /\ UNCHANGED <<buffer, input, todo, heading, idx, unit, outcome, successful_urls,
                   unsuccessful_urls, output_results, parses, compiles,
                   applies, spawns>>

\* line 164, the ? operator: main returns the deserialization error
InputError ==
    /\ pc = "main"
    /\ ~DeserializeOk(buffer)
    /\ pc' = "input_error"
    /\ UNCHANGED <<buffer, input, todo, heading, idx, unit, outcome, successful_urls,
                   unsuccessful_urls, output_results, parses, compiles,
                   applies, spawns>>

\* line 43: the next heading, in the HashMap's iteration order
NextHeading ==
    /\ pc = "outer"
    /\ \E h \in todo :
        /\ heading' = h
        /\ todo' = todo \ {h}
    /\ idx' = 1
    /\ pc' = "inner"
    /\ UNCHANGED <<buffer, input, unit, outcome, successful_urls, unsuccessful_urls,
                   output_results, parses, compiles, applies, spawns>>

\* line 44, list exhausted: back to the outer loop
EndHeading ==
    /\ pc = "inner"
    /\ idx > Len(xpaths[heading])
    /\ pc' = "outer"
    /\ UNCHANGED <<buffer, input, todo, heading, idx, unit, outcome, successful_urls,
                   unsuccessful_urls, output_results, parses, compiles,
                   applies, spawns>>

\* BeginGroup that skips an xpath_str whose entry is already in the output
BeginGroupUnlessFinalized ==
    /\ pc = "inner"
    /\ idx <= Len(xpaths[heading])
    /\ IF xpath_str \in DOMAIN output_results
       THEN /\ idx' = idx + 1
            /\ UNCHANGED <<pc, unit, outcome, successful_urls, unsuccessful_urls>>
       ELSE /\ successful_urls' = <<>>
            /\ unsuccessful_urls' = <<>>
            /\ unit' = [u \in DOMAIN urls |-> "unspawned"]
            /\ outcome' = NoOutcomes
            /\ pc' = "spawn"
            /\ UNCHANGED idx
    /\ UNCHANGED <<buffer, input, todo, heading, output_results, parses,
                   compiles, applies, spawns>>

\* lines 44-48: the next xpath_str, fresh lists, a fresh nursery
BeginGroup ==
    /\ pc = "inner"
    /\ idx <= Len(xpaths[heading])
    /\ successful_urls' = <<>>
    /\ unsuccessful_urls' = <<>>
    /\ unit' = [u \in DOMAIN urls |-> "unspawned"]
    /\ outcome' = NoOutcomes
    /\ pc' = "spawn"
    /\ UNCHANGED <<buffer, input, todo, heading, idx, output_results, parses,
                   compiles, applies, spawns>>

\* lines 50-125: nurse the task of the next url of input.urls.keys()
Spawn(u) ==
    /\ pc = "spawn"
    /\ unit[u] = "unspawned"
    /\ unit' = [unit EXCEPT ![u] = "running"]
    /\ spawns' = spawns + 1
    /\ UNCHANGED <<buffer, input, pc, todo, heading, idx, outcome, successful_urls,
                   unsuccessful_urls, output_results, parses, compiles, applies>>

\* line 128: drop(nursery)
DropNursery ==
    /\ pc = "spawn"
    /\ \A u \in DOMAIN unit : unit[u] # "unspawned"
    /\ pc' = "drain"
    /\ UNCHANGED <<buffer, input, todo, heading, idx, unit, outcome, successful_urls,
                   unsuccessful_urls, output_results, parses, compiles,
                   applies, spawns>>

\* lines 58-124: the task runs on the executor; its closure has no await
UnitRun(u) ==
    /\ unit[u] = "running"
    /\ LET r == TaskResult(heading, xpath_str, u)
       IN  /\ unit' = [unit EXCEPT ![u] = IF r = Panic THEN "panicked" ELSE "returned"]
           /\ outcome' = [outcome EXCEPT ![u] = r]
    /\ compiles' = [compiles EXCEPT ![xpath_str] = @ + 1]
    /\ parses' = [parses EXCEPT
                    ![u] = IF CallsHtmlParse(heading, xpath_str, u) THEN @ + 1 ELSE @]
    /\ applies' = IF CallsApply(heading, xpath_str, u)
                  THEN applies \cup {<<heading, u>>} ELSE applies
    /\ UNCHANGED <<buffer, input, pc, todo, heading, idx, successful_urls,
                   unsuccessful_urls, output_results, spawns>>

\* lines 131-142: one output of the stream, pushed onto one of the lists
Collect(u) ==
    /\ pc = "drain"
    /\ unit[u] = "returned"
    /\ unit' = [unit EXCEPT ![u] = "collected"]
    /\ IF IsSuccess(outcome[u])
       THEN /\ successful_urls' = Append(successful_urls, u)
            /\ UNCHANGED unsuccessful_urls
       ELSE /\ unsuccessful_urls' = Append(unsuccessful_urls, u)
            /\ UNCHANGED successful_urls
    /\ UNCHANGED <<buffer, input, pc, todo, heading, idx, outcome, output_results,
                   parses, compiles, applies, spawns>>

\* line 143: a task that panicked yields no output; the executor may hand
\* the panic to the task that polls the stream, which then unwinds
PanicPropagates ==
    /\ pc = "drain"
    /\ \E u \in DOMAIN unit : unit[u] = "panicked"
    /\ pc' = "panicked"
    /\ UNCHANGED <<buffer, input, todo, heading, idx, unit, outcome, successful_urls,
                   unsuccessful_urls, output_results, parses, compiles,
                   applies, spawns>>

\* lines 131, 145-151: the stream has ended; or_insert_with, next xpath_str
Finalize ==
    /\ pc = "drain"
    /\ StreamEnded
    /\ output_results' = OrInsert(output_results, xpath_str,
                                  XpathResult(successful_urls, unsuccessful_urls))
    /\ idx' = idx + 1
    /\ pc' = "inner"
    /\ UNCHANGED <<buffer, input, todo, heading, unit, outcome, successful_urls,
                   unsuccessful_urls, parses, compiles, applies, spawns>>

\* line 154: Ok(output_results)
Return ==
    /\ pc = "outer"
    /\ todo = {}
    /\ pc' = "returned"
    /\ UNCHANGED <<buffer, input, todo, heading, idx, unit, outcome, successful_urls,
                   unsuccessful_urls, output_results, parses, compiles,
                   applies, spawns>>

\* lines 171-176: main serializes the output, prints it and returns Ok(())
PrintOutput ==
    /\ pc = "returned"
    /\ pc' = "printed"
    /\ UNCHANGED <<buffer, input, todo, heading, idx, unit, outcome, successful_urls,
                   unsuccessful_urls, output_results, parses, compiles,
                   applies, spawns>>

Next ==
    \/ Deserialize
    \/ InputError
    \/ NextHeading
    \/ EndHeading
    \/ BeginGroup
    \/ \E u \in DOMAIN urls : Spawn(u)
    \/ DropNursery
    \/ \E u \in DOMAIN urls : UnitRun(u)
    \/ \E u \in DOMAIN urls : Collect(u)
    \/ PanicPropagates
    \/ Finalize
    \/ Return
    \/ PrintOutput

Spec == Init /\ [][Next]_vars

\* the steps of the task that runs main and process_input
MainTask ==
    \/ Deserialize
    \/ InputError
    \/ NextHeading
    \/ EndHeading
    \/ BeginGroup
    \/ \E u \in DOMAIN urls : Spawn(u)
    \/ DropNursery
    \/ \E u \in DOMAIN urls : Collect(u)
    \/ PanicPropagates
    \/ Finalize
    \/ Return
    \/ PrintOutput

\* the executor (AsyncStd, line 48) keeps polling the main task and runs
\* every nursed task: a closure without an await has nothing to wait for
FairSpec ==
    /\ Spec
    /\ WF_vars(MainTask)
    /\ \A u \in UrlNames : WF_vars(u \in DOMAIN urls /\ UnitRun(u))

(***************************************************************************)
(* Vocabulary of the properties.                                           *)
(***************************************************************************)
InList(u, l) == \E i \in 1..Len(l) : l[i] = u

Count(u, l) == Cardinality({ i \in 1..Len(l) : l[i] = u })

Elems(l) == { l[i] : i \in 1..Len(l) }

\* the headings whose list holds the xpath string x
Owners(x) == { h \in DOMAIN xpaths : InList(x, xpaths[h]) }

\* the last step finalized a group: its tasks and lists are still in place
GroupFinalized == pc = "inner" /\ idx > 1

\* the xpath string of the group that was just finalized
finalized_str == xpaths[heading][idx - 1]

\* evaluated on u's markup, x selects a first node whose text is a value a
\* target can have
WouldSatisfy(x, u) ==
    LET q == XpathParse(x)
        d == HtmlParse(urls[u].content)
        r == XpathApply(q, XpathItemTree(d))
    IN  /\ q.ok /\ d.ok /\ r.ok
        /\ r.items # <<>>
        /\ r.items[1].isNode
        /\ UnwrapOrDefault(r.items[1].text) \in Targets

(***************************************************************************)
(* C1. After process_input returns, for every key x of the output and     *)
(* every input url u, u occurs exactly once in successful[x] and          *)
(* unsuccessful[x] taken together, and the lists hold input urls only.    *)
(***************************************************************************)
C1_Partition ==
    pc = "returned" =>
        \A x \in DOMAIN output_results :
            /\ \A u \in DOMAIN urls :
                  Count(u, output_results[x].successful)
                  + Count(u, output_results[x].unsuccessful) = 1
            /\ Elems(output_results[x].successful) \subseteq DOMAIN urls
            /\ Elems(output_results[x].unsuccessful) \subseteq DOMAIN urls

(***************************************************************************)
(* C2. For x under exactly one heading h: u is in successful[x] iff u has *)
(* a target for h, x compiles, u's content parses, evaluation succeeds and *)
(* the text of the first matched node ("" when none matched) equals the   *)
(* target exactly; otherwise u is in unsuccessful[x].                      *)
(***************************************************************************)
\* the text of the first matched node, "" when no node matched
FirstMatchText(items) ==
    IF items = <<>> THEN "" ELSE UnwrapOrDefault(items[1].text)

Matches(h, x, u) ==
    /\ h \in DOMAIN urls[u].targets
    /\ XpathParse(x).ok
    /\ HtmlParse(urls[u].content).ok
    /\ LET r == XpathApply(XpathParse(x), XpathItemTree(HtmlParse(urls[u].content)))
       IN  /\ r.ok
           /\ (r.items # <<>> => r.items[1].isNode)
           /\ FirstMatchText(r.items) = urls[u].targets[h]

C2_SuccessfulIffMatch ==
    \A x \in DOMAIN output_results : \A h \in Headings :
        Owners(x) = {h} =>
            \A u \in DOMAIN urls :
                /\ InList(u, output_results[x].successful) <=> Matches(h, x, u)
                /\ ~Matches(h, x, u) => InList(u, output_results[x].unsuccessful)

C4_InvalidXpathAllUnsuccessful ==
    \A x \in DOMAIN output_results :
        ~XpathParse(x).ok =>
            /\ output_results[x].successful = <<>>
            /\ Elems(output_results[x].unsuccessful) = DOMAIN urls
            /\ Len(output_results[x].unsuccessful) = Cardinality(DOMAIN urls)

\* the entry of a malformed xpath string, over two urls, one of them with a
\* target registered for its heading and markup that parses
C4_Witness ==
    \E x \in DOMAIN output_results :
        /\ ~XpathParse(x).ok
        /\ Cardinality(DOMAIN urls) = 2
        /\ \E u \in DOMAIN urls : \E h \in Owners(x) :
              /\ h \in DOMAIN urls[u].targets
              /\ HtmlParse(urls[u].content).ok
              /\ HtmlParse(urls[u].content).nodes # <<>>

(***************************************************************************)
(* C5. When the xpath compiles and evaluates on a url's document without  *)
(* matching any node, and the target registered for the (heading, url)    *)
(* pair is the empty string, the url is classified successful: the task's  *)
(* url is pushed onto successful_urls, and it is in successful[x] when the *)
(* heading is the only one that owns x.                                    *)
(***************************************************************************)
\* x compiles, u's markup parses, evaluation succeeds with no item, and the
\* target of (h, u) is ""
NoNodeEmptyTarget(h, x, u) ==
    /\ h \in DOMAIN urls[u].targets
    /\ urls[u].targets[h] = ""
    /\ XpathParse(x).ok
    /\ HtmlParse(urls[u].content).ok
    /\ LET r == XpathApply(XpathParse(x), XpathItemTree(HtmlParse(urls[u].content)))
       IN  r.ok /\ r.items = <<>>

C5_NoNodeEmptyTargetSuccessful ==
    /\ pc = "drain" =>
          \A u \in DOMAIN urls :
              (unit[u] = "collected" /\ NoNodeEmptyTarget(heading, xpath_str, u)) =>
                  /\ InList(u, successful_urls)
                  /\ ~InList(u, unsuccessful_urls)
    /\ \A x \in DOMAIN output_results : \A h \in Headings : \A u \in DOMAIN urls :
          (Owners(x) = {h} /\ NoNodeEmptyTarget(h, x, u)) =>
              /\ InList(u, output_results[x].successful)
              /\ ~InList(u, output_results[x].unsuccessful)

C5_Witness ==
    \E x \in DOMAIN output_results : \E h \in Headings : \E u \in DOMAIN urls :
        /\ Owners(x) = {h}
        /\ NoNodeEmptyTarget(h, x, u)
        /\ InList(u, output_results[x].successful)

(***************************************************************************)
(* C6. An entry of the output never changes once it is there: the entry   *)
(* of an xpath string is the pair of lists of its first finalization, and  *)
(* a later finalization of the same string leaves the output as it is.     *)
(***************************************************************************)
C6_FirstFinalizationKept ==
    [][ /\ \A x \in DOMAIN output_results :
              /\ x \in DOMAIN output_results'
              /\ output_results'[x] = output_results[x]
        /\ \A x \in (DOMAIN output_results') \ DOMAIN output_results :
              /\ x = xpath_str
              /\ output_results'[x] = XpathResult(successful_urls, unsuccessful_urls)
        /\ (pc = "drain" /\ pc' = "inner") => xpath_str \in DOMAIN output_results'
      ]_vars

\* a group was just finalized whose lists differ from the entry its xpath
\* string already had
C6_Witness ==
    /\ GroupFinalized
    /\ finalized_str \in DOMAIN output_results
    /\ output_results[finalized_str] # XpathResult(successful_urls, unsuccessful_urls)

(***************************************************************************)
(* C7. When an xpath string is under both H1 and H2, with different       *)
(* targets registered for some url, its entry is the outcome derived from  *)
(* H1, the first-registered heading, whatever order the headings map is    *)
(* iterated in.                                                            *)
(***************************************************************************)
\* some url has a target under H1 and another one under H2
TargetsDiffer ==
    \E d \in DOMAIN urls :
        /\ {"H1", "H2"} \subseteq DOMAIN urls[d].targets
        /\ urls[d].targets["H1"] # urls[d].targets["H2"]

C7_FirstRegisteredWins ==
    \A x \in DOMAIN output_results :
        (Owners(x) = {"H1", "H2"} /\ TargetsDiffer) =>
            \A u \in DOMAIN urls :
                InList(u, output_results[x].successful)
                    <=> TaskResult("H1", x, u) = Ok(TRUE)

(***************************************************************************)
(* C8. A fault inside a task is caught at the task's boundary: the run is *)
(* never terminated by it, and when the task's group is finalized the      *)
(* task's url is in the unsuccessful list.                                 *)
(***************************************************************************)
C8_FaultIsolated ==
    /\ pc # "panicked"
    /\ GroupFinalized =>
          \A u \in DOMAIN urls :
              unit[u] = "panicked" => InList(u, unsuccessful_urls)

(***************************************************************************)
(* C9. A group is finalized, and the output changes, only in a step taken *)
(* when every url has a task that is no longer running and every output a  *)
(* task has returned has been collected.                                   *)
(***************************************************************************)
C9_FinalizedAfterJoin ==
    [][ (output_results' # output_results \/ (pc = "drain" /\ pc' = "inner")) =>
            /\ pc = "drain"
            /\ \A u \in DOMAIN urls : unit[u] \in {"collected", "panicked"}
            /\ Len(successful_urls) + Len(unsuccessful_urls)
                 = Cardinality({ u \in DOMAIN urls : outcome[u].kind \in {"Ok", "Err"} })
      ]_vars

\* a group of two tasks was just finalized into a new entry, both outputs
\* collected
C9_Witness ==
    /\ GroupFinalized
    /\ Cardinality(DOMAIN urls) = 2
    /\ \A u \in DOMAIN urls : unit[u] = "collected"
    /\ finalized_str \in DOMAIN output_results
    /\ output_results[finalized_str] = XpathResult(successful_urls, unsuccessful_urls)

(***************************************************************************)
(* C10. In one run each url's markup is parsed exactly once, however many *)
(* xpath strings are evaluated against it: never a second time, and once   *)
(* when process_input has returned and some xpath was applied to the url.  *)
(***************************************************************************)
C10_ParsedOncePerUrl ==
    \A u \in DOMAIN urls :
        /\ parses[u] <= 1
        /\ (pc = "returned" /\ \E h \in Headings : <<h, u>> \in applies)
              => parses[u] = 1

(***************************************************************************)
(* C11: during one run, each distinct expression string is compiled at     *)
(* most once, however many urls and headings it is evaluated for.          *)
(***************************************************************************)
C11_CompiledOncePerString == \A x \in XpathStrs : compiles[x] <= 1

(***************************************************************************)
(* C12: for a fixed input and a fixed order of the headings, which urls    *)
(* are in successful[x] and which are in unsuccessful[x] does not depend   *)
(* on the interleaving or on the order in which the tasks of x's group     *)
(* complete: the members of the two lists of a finalized group are the     *)
(* urls that the input assigns to them under the group's heading, and an   *)
(* entry of the output holds the members of a group of a heading already   *)
(* visited.  Only the order inside a list varies.                          *)
(***************************************************************************)
\* the urls whose task for x under h yields Ok(true), whenever it runs
SuccessfulSet(h, x) ==
    { u \in DOMAIN urls : IsSuccess(TaskResult(h, x, u)) }

\* the urls whose task for x under h yields Ok(false) or Err(e)
UnsuccessfulSet(h, x) ==
    { u \in DOMAIN urls : /\ TaskResult(h, x, u).kind \in {"Ok", "Err"}
                          /\ ~IsSuccess(TaskResult(h, x, u)) }

C12_MembershipOrderFree ==
    /\ GroupFinalized =>
          /\ Elems(successful_urls) = SuccessfulSet(heading, finalized_str)
          /\ Elems(unsuccessful_urls) = UnsuccessfulSet(heading, finalized_str)
    /\ \A x \in DOMAIN output_results :
          \E h \in Owners(x) \ todo :
              /\ Elems(output_results[x].successful) = SuccessfulSet(h, x)
              /\ Elems(output_results[x].unsuccessful) = UnsuccessfulSet(h, x)

\* two groups of the same string completed in opposite orders
C12_Witness ==
    /\ GroupFinalized
    /\ finalized_str \in DOMAIN output_results
    /\ output_results[finalized_str].unsuccessful = <<"A", "B">>
    /\ unsuccessful_urls = <<"B", "A">>

(***************************************************************************)
(* C13: when the evaluation of x on u's document yields a scalar string    *)
(* directly, the task of u compares that string with the registered        *)
(* target: it completes, and u is in the successful list exactly when the  *)
(* string equals the target.                                               *)
(***************************************************************************)
\* the task of u for x under h evaluates x, and the first item of the
\* result is a scalar of kind k
YieldsScalar(h, x, u, k) ==
    /\ CallsApply(h, x, u)
    /\ LET r == XpathApply(XpathParse(x), XpathItemTree(HtmlParse(urls[u].content)))
       IN  r.ok /\ r.items # <<>> /\ r.items[1].kind = k

\* the scalar that the evaluation of x on u's document yields
ScalarValue(x, u) ==
    XpathApply(XpathParse(x), XpathItemTree(HtmlParse(urls[u].content))).items[1].value

C13_ScalarStringCompared ==
    /\ pc \in {"spawn", "drain"} =>
          \A u \in DOMAIN urls :
              YieldsScalar(heading, xpath_str, u, "string") =>
                  /\ unit[u] # "panicked"
                  /\ unit[u] \in {"returned", "collected"} =>
                        outcome[u] = Ok(ScalarValue(xpath_str, u) = urls[u].targets[heading])
    /\ GroupFinalized =>
          \A u \in DOMAIN urls :
              YieldsScalar(heading, finalized_str, u, "string") =>
                  /\ InList(u, successful_urls)
                        <=> ScalarValue(finalized_str, u) = urls[u].targets[heading]
                  /\ InList(u, unsuccessful_urls)
                        <=> ScalarValue(finalized_str, u) # urls[u].targets[heading]

(***************************************************************************)
(* C14: when the evaluation of x on u's document yields a boolean or a     *)
(* numeric scalar, the task of u completes normally with NoMatch whatever  *)
(* the target is, and u is in the unsuccessful list.                       *)
(***************************************************************************)
C14_OtherScalarNoMatch ==
    /\ pc \in {"spawn", "drain"} =>
          \A u \in DOMAIN urls :
              YieldsScalar(heading, xpath_str, u, "number") =>
                  /\ unit[u] # "panicked"
                  /\ unit[u] \in {"returned", "collected"} => outcome[u] = Ok(FALSE)
    /\ GroupFinalized =>
          \A u \in DOMAIN urls :
              YieldsScalar(heading, finalized_str, u, "number") =>
                  /\ InList(u, unsuccessful_urls)
                  /\ ~InList(u, successful_urls)

(***************************************************************************)
(* C15: a parse error of v's markup, or an evaluation error of x on v's    *)
(* tree, makes the task of v end with Err and puts v in the unsuccessful   *)
(* list; it changes nothing for another url u, whose list is the one its   *)
(* own target and markup decide, whatever v's document is; and it never    *)
(* makes process_input give up: the run is abandoned only when a task      *)
(* panicked, and a task with a failing document does not panic.            *)
(***************************************************************************)
\* the task of v for x under h gets a parse error or an evaluation error
DocumentFails(h, x, v) ==
    \/ CallsHtmlParse(h, x, v) /\ ~HtmlParse(urls[v].content).ok
    \/ /\ CallsApply(h, x, v)
       /\ ~XpathApply(XpathParse(x), XpathItemTree(HtmlParse(urls[v].content))).ok

C15_DocumentFailureContained ==
    /\ pc \in {"spawn", "drain"} =>
          \A v \in DOMAIN urls :
              DocumentFails(heading, xpath_str, v) =>
                  /\ unit[v] # "panicked"
                  /\ unit[v] \in {"returned", "collected"} => outcome[v].kind = "Err"
    /\ GroupFinalized =>
          \A v \in DOMAIN urls :
              DocumentFails(heading, finalized_str, v) =>
                  /\ InList(v, unsuccessful_urls)
                  /\ ~InList(v, successful_urls)
                  /\ \A u \in DOMAIN urls \ {v} :
                        unit[u] = "collected" =>
                            /\ InList(u, successful_urls)
                                  <=> Matches(heading, finalized_str, u)
                            /\ InList(u, unsuccessful_urls)
                                  <=> ~Matches(heading, finalized_str, u)
    /\ pc = "panicked" =>
          \E u \in DOMAIN urls :
              unit[u] = "panicked" /\ ~DocumentFails(heading, xpath_str, u)

\* a group finalized with a failing document next to a matching one
C15_Witness ==
    /\ GroupFinalized
    /\ \E v \in DOMAIN urls, u \in DOMAIN urls :
          /\ v # u
          /\ DocumentFails(heading, finalized_str, v)
          /\ InList(v, unsuccessful_urls)
          /\ InList(u, successful_urls)

(***************************************************************************)
(* C16: when process_input returns, the keys of the output are exactly     *)
(* the distinct xpath strings that occur in some heading's list: each has  *)
(* an entry, with both lists empty when the input has no urls, and there   *)
(* is no other key.                                                        *)
(***************************************************************************)
\* the distinct xpath strings of the input
AllXpathStrs == UNION { Elems(xpaths[h]) : h \in DOMAIN xpaths }

C16_KeysAreXpathStrs ==
    /\ DOMAIN output_results \subseteq AllXpathStrs
    /\ pc \in {"returned", "printed"} =>
          /\ DOMAIN output_results = AllXpathStrs
          /\ DOMAIN urls = {} =>
                \A x \in AllXpathStrs : output_results[x] = XpathResult(<<>>, <<>>)

\* returned on an input without urls, with a string listed twice and another
C16_Witness ==
    /\ pc = "returned"
    /\ DOMAIN urls = {}
    /\ Occurrences(xpaths) = 3
    /\ Cardinality(DOMAIN output_results) = 2
    /\ \A x \in DOMAIN output_results : output_results[x] = XpathResult(<<>>, <<>>)

(***************************************************************************)
(* C17: when the buffer does not deserialize into an InputJson, main       *)
(* returns the error before process_input is called: main is at its start  *)
(* or has returned the error, no task was spawned, no xpath string was     *)
(* compiled, no entry was made, and nothing is printed.                    *)
(***************************************************************************)
C17_InputErrorBeforeAnyWork ==
    ~DeserializeOk(buffer) =>
        /\ pc \in {"main", "input_error"}
        /\ spawns = 0
        /\ \A x \in XpathStrs : compiles[x] = 0
        /\ output_results = <<>>

\* main has returned the deserialization error
C17_Witness ==
    /\ ~DeserializeOk(buffer)
    /\ pc = "input_error"
    /\ spawns = 0

C19_OneTaskPerOccurrenceAndUrl ==
    /\ pc = "drain" =>
          \A u \in DOMAIN urls : unit[u] \notin {"none", "unspawned"}
    /\ pc \in {"returned", "printed"} =>
          spawns = Occurrences(xpaths) * Cardinality(DOMAIN urls)

\* returned after two groups of one string, two tasks each
C19_Witness ==
    /\ pc = "returned"
    /\ Cardinality(DOMAIN urls) = 2
    /\ Occurrences(xpaths) = 2
    /\ Cardinality(DOMAIN output_results) = 1
    /\ spawns = 4

(***************************************************************************)
(* C20: there is no cancellation and no timeout.  A running task stops     *)
(* running only by completing; and a step that leaves a task running does  *)
(* not finalize an entry, does not begin another group and does not        *)
(* return from process_input.  So while one task never completes, the      *)
(* entry of its xpath string is never finalized, no later group is         *)
(* started and process_input never returns.                                *)
(***************************************************************************)
C20_RunningTaskBlocks ==
    [][ /\ \A u \in DOMAIN urls :
              (unit[u] = "running" /\ unit'[u] # "running") =>
                  /\ unit'[u] \in {"returned", "panicked"}
                  /\ outcome'[u] # NoOutcome
        /\ (\E u \in DOMAIN urls : unit[u] = "running" /\ unit'[u] = "running") =>
              /\ output_results' = output_results
              /\ heading' = heading
              /\ idx' = idx
              /\ pc' \in {"spawn", "drain", "panicked"}
      ]_vars

\* the main task waits in the drain loop for the one task still running
C20_Witness ==
    /\ pc = "drain"
    /\ Cardinality(DOMAIN urls) = 2
    /\ \E u \in DOMAIN urls :
          /\ unit[u] = "running"
          /\ \A v \in DOMAIN urls \ {u} : unit[v] = "collected"
    /\ ~StreamEnded
    /\ xpath_str \notin DOMAIN output_results

(***************************************************************************)
(* C21: groups are processed strictly one after another.  The tasks that   *)
(* are running are those of the one group the main task is at; a group is  *)
(* begun, and its first task spawned, only when every task of the group    *)
(* before it has completed (its output collected, or lost in a panic) and  *)
(* the entry of that group's xpath string is in the output.                *)
(***************************************************************************)
\* every task of the group has completed
GroupJoined == \A u \in DOMAIN unit : unit[u] \in {"none", "collected", "panicked"}

C21_GroupsInSequence ==
    [][ /\ (\E u \in DOMAIN urls : unit'[u] \in {"unspawned", "running"}) =>
              pc' \in {"spawn", "drain", "panicked"}
        /\ (pc = "inner" /\ pc' = "spawn") =>
              /\ GroupJoined
              /\ idx > 1 => finalized_str \in DOMAIN output_results
        /\ spawns' # spawns => pc = "spawn"
      ]_vars

\* the second group is being spawned: the first group's entry is in the
\* output, one task of the second group runs, another is not spawned yet
C21_Witness ==
    /\ pc = "spawn"
    /\ DOMAIN output_results # {}
    /\ \E u \in DOMAIN urls, v \in DOMAIN urls :
          unit[u] = "running" /\ unit[v] = "unspawned"

(***************************************************************************)
(* C22: when every spawned task completes, process_input returns Ok with   *)
(* an entry for every distinct xpath string of the input, and the run does *)
(* not stop between spawning a group and draining it.  Every step of the   *)
(* run moves the main task or a nursed task forward and none is ever       *)
(* undone, so a fairly scheduled run ends in a state where no step is      *)
(* possible; the claim is that, on a buffer that deserializes, the only    *)
(* such state is the one after process_input has returned Ok with all the  *)
(* entries (and main has printed them).                                    *)
(***************************************************************************)
C22_EndsOnlyByReturning ==
    (DeserializeOk(buffer) /\ ~ENABLED Next) =>
        /\ pc = "printed"
        /\ DOMAIN output_results = AllXpathStrs

====
